---- MODULE Spec2Model ----
(***************************************************************************)
(* The Gemini service client of ASCII Wiki: generateAsciiArt (bounded      *)
(* retry around one generateContent call, with response validation),      *)
(* getRandomWord (single shot) and streamDefinition (async generator).    *)
(*                                                                         *)
(* Texts are sequences of lexemes.  A lexeme is a fixed piece of text: a   *)
(* code fence (three backticks, written "fence" here because a TLA+       *)
(* string cannot hold a backtick), the word json, a whitespace character, *)
(* a brace, a comma, one whole JSON member, or a piece of junk.           *)
(* Concatenating the lexemes of a sequence gives the text it stands for.  *)
(* Messages are sequences of text parts, so that a template literal is a  *)
(* concatenation and "embeds" is "has as a contiguous part".              *)
(***************************************************************************)
EXTENDS Integers, Sequences, FiniteSets, TLC

VARIABLES
  op,          \* the exported function invoked: "none" before the call
  pc,          \* where the invocation stands
  apiKey,      \* the apiKey argument
  textFlag,    \* the build's value of ENABLE_ASCII_TEXT_GENERATION
  attempt,     \* generateAsciiArt: the loop variable
  lastError,   \* generateAsciiArt: the local lastError
  calls,       \* requests issued to the generation service so far
  script,      \* how the service behaves in this invocation (fixed at the call)
  served,      \* how many of the script's events the invocation has received
  result,      \* the value the promise resolved to
  error,       \* the Error the promise (or the generator) rejected with
  topic,       \* the topic argument
  errorMessage,\* streamDefinition: the catch block's errorMessage
  observed,    \* streamDefinition: the fragments the consumer received
  pulls,       \* streamDefinition: the next() calls the consumer has made
  body, wrap, plain, fenced, applied,  \* the fence comparison (SpecFence)
  native,      \* AdBanner: what Capacitor.isNativePlatform() returns
  mounted,     \* AdBanner: the component is mounted
  mounts,      \* AdBanner: how many times the effect has run
  tasks,       \* AdBanner: the async functions started, in order of start
  bridge,      \* AdBanner: the calls made to the AdMob plugin, in order
  banner,      \* AdBanner: the native banner is showing
  inv,         \* concurrent callers: each invocation's state
  frames       \* concurrent callers: the locals attempt and lastError

vars == <<op, pc, apiKey, textFlag, attempt, lastError, calls, script, served,
          result, error, topic, errorMessage, observed, pulls, body, wrap,
          plain, fenced, applied, native, mounted, mounts, tasks, bridge,
          banner, inv, frames>>

serviceVars == <<op, pc, apiKey, textFlag, attempt, lastError, calls, script,
                 served, result, error, topic, errorMessage, observed, pulls>>

fenceVars == <<body, wrap, plain, fenced, applied>>

adVars == <<native, mounted, mounts, tasks, bridge, banner>>

concVars == <<inv, frames>>

\* What one invocation of one exported function leaves alone.
restVars == <<fenceVars, adVars, concVars>>

\* No AdBanner is rendered; no concurrent callers.
AdUnused ==
  /\ native = FALSE
  /\ mounted = FALSE
  /\ mounts = 0
  /\ tasks = <<>>
  /\ bridge = <<>>
  /\ banner = FALSE

ConcUnused ==
  /\ inv = <<>>
  /\ frames = <<>>

----------------------------------------------------------------------------
(* Lexemes *)

FENCE == "fence"
JSONWORD == "json"
NL == "\n"
SP == " "
LBRACE == "{"
RBRACE == "}"
COMMA == ","
JUNK == "x"
ArtX == "\"art\":\"x\""
ArtY == "\"art\":\"y\""
ArtBlank == "\"art\":\" \""
ArtEmpty == "\"art\":\"\""
ArtNumber == "\"art\":1"
TextT == "\"text\":\"t\""
TextEmpty == "\"text\":\"\""

\* What String.prototype.trim and the regex class \s take for whitespace.
WhiteSpace == {SP, NL}

MemberLexemes == {ArtX, ArtY, ArtBlank, ArtEmpty, ArtNumber, TextT, TextEmpty}

\* JavaScript values of the fields of a parsed response.
Undefined == [type |-> "undefined", chars |-> <<>>]
Str(cs) == [type |-> "string", chars |-> cs]
Num == [type |-> "number", chars |-> <<>>]

\* The key and the value a member lexeme parses to.
MemberKey(l) == IF l \in {TextT, TextEmpty} THEN "text" ELSE "art"

MemberValue(l) ==
  CASE l = ArtX -> Str(<<"x">>)
    [] l = ArtY -> Str(<<"y">>)
    [] l = ArtBlank -> Str(<<SP>>)
    [] l = ArtEmpty -> Str(<<>>)
    [] l = ArtNumber -> Num
    [] l = TextT -> Str(<<"t">>)
    [] l = TextEmpty -> Str(<<>>)

----------------------------------------------------------------------------
(* The pure steps of one attempt of generateAsciiArt *)

SetMin(S) == CHOOSE m \in S : \A n \in S : m <= n
SetMax(S) == CHOOSE m \in S : \A n \in S : n <= m

\* String.prototype.trim
Trim(s) ==
  LET keep == {i \in 1..Len(s) : s[i] \notin WhiteSpace}
  IN IF keep = {} THEN <<>> ELSE SubSeq(s, SetMin(keep), SetMax(keep))

\* The tokens the greedy head of fenceRegex, ^```(?:json)?\s*\n?, consumes
\* of a text that starts with a fence.
FenceHeadLen(s) ==
  LET afterLabel == IF Len(s) >= 2 /\ s[2] = JSONWORD THEN 2 ELSE 1
      ends == {k \in afterLabel..Len(s) :
                 \A i \in (afterLabel + 1)..k : s[i] \in WhiteSpace}
  IN SetMax(ends)

\* Whether the tail of fenceRegex, \n?\s*```$, matches s from position q on.
FenceTailAt(s, q) ==
  /\ q <= Len(s)
  /\ s[Len(s)] = FENCE
  /\ \A i \in q..(Len(s) - 1) : s[i] \in WhiteSpace

\* jsonStr.match(fenceRegex): whether it matches, and match[1], the lazy
\* group (.*?): the shortest run after the head that the tail can follow.
\* The head never consumes the closing fence, and the group (the s flag
\* lets . match anything) can hold whatever lies between, so a match with
\* the greedy head exists whenever any match does.
fenceRegex(s) ==
  IF Len(s) >= 2 /\ s[1] = FENCE /\ s[Len(s)] = FENCE
  THEN LET p == FenceHeadLen(s)
           q == SetMin({k \in (p + 1)..Len(s) : FenceTailAt(s, k)})
       IN [matched |-> TRUE, group |-> SubSeq(s, p + 1, q - 1)]
  ELSE [matched |-> FALSE, group |-> <<>>]

\* The text trimmed and no fence stripped.
StripFenceMissing(text) == Trim(text)

\* Lines 301-307: trim, then strip a fence when match && match[1].
StripFence(text) ==
  LET jsonStr == Trim(text)
      match == fenceRegex(jsonStr)
  IN IF match.matched /\ match.group # <<>>
     THEN Trim(match.group)
     ELSE jsonStr

\* Line 309: jsonStr.startsWith('{') && jsonStr.endsWith('}')
LooksLikeObject(jsonStr) ==
  /\ Len(jsonStr) >= 1
  /\ jsonStr[1] = LBRACE
  /\ jsonStr[Len(jsonStr)] = RBRACE

\* JSON.parse of a text that starts with { and ends with }: members
\* separated by commas, whitespace anywhere between them; a later member
\* overrides an earlier one of the same key.
JsonParse(jsonStr) ==
  LET inner == SelectSeq(SubSeq(jsonStr, 2, Len(jsonStr) - 1),
                         LAMBDA c : c \notin WhiteSpace)
      wellFormed ==
        /\ Len(jsonStr) >= 2
        /\ \/ inner = <<>>
           \/ /\ Len(inner) % 2 = 1
              /\ \A i \in 1..Len(inner) :
                   IF i % 2 = 1 THEN inner[i] \in MemberLexemes
                                ELSE inner[i] = COMMA
      Field(key) ==
        LET at == {i \in 1..Len(inner) :
                     inner[i] \in MemberLexemes /\ MemberKey(inner[i]) = key}
        IN IF at = {} THEN Undefined ELSE MemberValue(inner[SetMax(at)])
  IN IF wellFormed
     THEN [ok |-> TRUE, art |-> Field("art"), text |-> Field("text")]
     ELSE [ok |-> FALSE, art |-> Undefined, text |-> Undefined]

\* The art check without the emptiness test.
InvalidArtTypeOnly(parsedData) == parsedData.art.type # "string"

\* The art check without the trim.
InvalidArtNoTrim(parsedData) ==
  \/ parsedData.art.type # "string"
  \/ Len(parsedData.art.chars) = 0

\* Line 315: typeof parsedData.art !== 'string' || art.trim().length === 0
InvalidArt(parsedData) ==
  \/ parsedData.art.type # "string"
  \/ Len(Trim(parsedData.art.chars)) = 0

\* JavaScript truthiness of a field value.
Truthy(v) == \/ v.type = "number"
             \/ v.type = "string" /\ v.chars # <<>>

NoResult == [tag |-> "none"]

\* The result built without consulting the toggle.
BuildResultIgnoringToggle(parsedData, flag) ==
  IF Truthy(parsedData.text)
  THEN [tag |-> "AsciiArtData", art |-> parsedData.art, hasText |-> TRUE,
        text |-> parsedData.text]
  ELSE [tag |-> "AsciiArtData", art |-> parsedData.art, hasText |-> FALSE,
        text |-> Undefined]

\* Lines 319-325: result = {art}, plus text under the toggle.
BuildResult(parsedData, flag) ==
  IF flag /\ Truthy(parsedData.text)
  THEN [tag |-> "AsciiArtData", art |-> parsedData.art, hasText |-> TRUE,
        text |-> parsedData.text]
  ELSE [tag |-> "AsciiArtData", art |-> parsedData.art, hasText |-> FALSE,
        text |-> Undefined]

\* Messages of the errors an attempt throws.
NotObjectMsg == <<"Response is not a valid JSON object">>
SyntaxErrorMsg == <<"Unexpected token in JSON">>
InvalidArtMsg == <<"Invalid or empty ASCII art in response">>
TrimOfUndefinedMsg == <<"Cannot read properties of undefined (reading 'trim')">>
UnknownErrorMsg == <<"Unknown error occurred">>

\* How a try block ends: it returns r, throws an Error with a message, or
\* throws a value that is no Error.
Returned(r) == [ok |-> TRUE, result |-> r, isError |-> FALSE, message |-> <<>>]
Thrown(msg) == [ok |-> FALSE, result |-> NoResult, isError |-> TRUE, message |-> msg]
ThrownValue == [ok |-> FALSE, result |-> NoResult, isError |-> FALSE, message |-> <<>>]

\* Lines 301-327 on the text of a response: what the try block does with it.
ValidateText(text, flag) ==
  LET jsonStr == StripFence(text)
      parsedData == JsonParse(jsonStr)
  IN IF ~LooksLikeObject(jsonStr) THEN Thrown(NotObjectMsg)
     ELSE IF ~parsedData.ok THEN Thrown(SyntaxErrorMsg)
     ELSE IF InvalidArt(parsedData) THEN Thrown(InvalidArtMsg)
     ELSE Returned(BuildResult(parsedData, flag))

----------------------------------------------------------------------------
(* The generation service, as one invocation meets it *)

\* Bounds of the model.
MaxChunks == 2
MaxBody == 5

\* What an awaited generateContent settles to: a response with a text, a
\* response whose text is undefined, a rejection with an Error, or a
\* rejection with a value that is no Error.
Resolved(t) == [kind |-> "text", text |-> t, message |-> <<>>]
ResolvedNoText == [kind |-> "noText", text |-> <<>>, message |-> <<>>]
Rejected(m) == [kind |-> "error", text |-> <<>>, message |-> m]
RejectedValue == [kind |-> "value", text |-> <<>>, message |-> <<>>]

NetworkErrors == {<<"fetch failed">>, <<"503 Service Unavailable">>}

\* Response texts of the art model.
ArtTexts ==
  { <<LBRACE, ArtX, RBRACE>>,
    <<SP, LBRACE, ArtY, COMMA, TextT, RBRACE, NL>>,
    <<LBRACE, ArtX, COMMA, TextEmpty, RBRACE>>,
    <<FENCE, JSONWORD, NL, LBRACE, ArtY, RBRACE, NL, FENCE>>,
    <<LBRACE, ArtBlank, RBRACE>>,
    <<LBRACE, ArtEmpty, COMMA, TextT, RBRACE>>,
    <<LBRACE, ArtNumber, RBRACE>>,
    <<LBRACE, TextT, RBRACE>>,
    <<LBRACE, ArtX, JUNK, RBRACE>>,
    <<JUNK, LBRACE, ArtX, RBRACE>>,
    <<>> }

ArtAnswers ==
  {Resolved(t) : t \in ArtTexts} \cup {ResolvedNoText, RejectedValue}
    \cup {Rejected(m) : m \in NetworkErrors}

WordTexts == { <<"w">>, <<SP, "w", NL>>, <<>> }

WordAnswers ==
  {Resolved(t) : t \in WordTexts} \cup {ResolvedNoText, RejectedValue}
    \cup {Rejected(m) : m \in NetworkErrors}

ApiKeys == {"", "key"}
Topics == {"tree"}

\* The event the service answers request number i with.  A script that has
\* run out keeps failing.
Upstream(i) ==
  IF i \in 1..Len(script) THEN script[i] ELSE Rejected(<<"fetch failed">>)

----------------------------------------------------------------------------
(* Errors *)

Null == [tag |-> "null"]
Err(msg) == [tag |-> "Error", message |-> msg]

MissingKeyMsg == <<"API Key is missing. Please provide a valid API key.">>

\* getAi without its check.
getAiUnchecked(key) == Returned(NoResult)

\* getAi: throws on a falsy apiKey, else gives a client.
getAi(key) ==
  IF key = "" THEN Thrown(MissingKeyMsg) ELSE Returned(NoResult)

maxRetries == 3

\* Line 30, and the builds checked: the build as shipped and the build with
\* the art-direction toggle switched on.
ENABLE_ASCII_TEXT_GENERATION == FALSE
TextToggleBuilds == {ENABLE_ASCII_TEXT_GENERATION, TRUE}

\* Lines 287-327: the try block of one attempt, given what the awaited
\* generateContent settled to.
TryGenerate(answer, flag) ==
  CASE answer.kind = "text" -> ValidateText(answer.text, flag)
    [] answer.kind = "noText" -> Thrown(TrimOfUndefinedMsg)
    [] answer.kind = "error" -> Thrown(answer.message)
    [] answer.kind = "value" -> ThrownValue

\* Line 330: error instanceof Error ? error : new Error('Unknown error occurred')
Caught(outcome) ==
  IF outcome.isError THEN Err(outcome.message) ELSE Err(UnknownErrorMsg)

\* The final throw one attempt early.
IsLastAttemptEarly(a) == a = maxRetries - 1

\* Line 333
IsLastAttempt(a) == a = maxRetries

\* The final message without the last failure's message.
ExhaustedMsgNoCause(le) ==
  <<"Could not generate ASCII art after ", ToString(maxRetries), " attempts">>

\* Line 335
ExhaustedMsg(le) ==
  <<"Could not generate ASCII art after ", ToString(maxRetries), " attempts: ">>
    \o le.message

\* The loop test off by one: attempt < maxRetries.
EnterLoopOffByOne(a, le) ==
  /\ attempt' = a
  /\ lastError' = le
  /\ IF a < maxRetries
     THEN /\ calls' = calls + 1
          /\ pc' = "awaitGenerate"
          /\ error' = error
     ELSE /\ calls' = calls
          /\ pc' = "threw"
          /\ error' = IF le # Null THEN le
                      ELSE Err(<<"All retry attempts failed">>)

\* The catch block without the assignment to lastError.
EnterLoopForgetsError(a, le) ==
  /\ attempt' = a
  /\ lastError' = lastError
  /\ IF a <= maxRetries
     THEN /\ calls' = calls + 1
          /\ pc' = "awaitGenerate"
          /\ error' = error
     ELSE /\ calls' = calls
          /\ pc' = "threw"
          /\ error' = IF lastError # Null THEN lastError
                      ELSE Err(<<"All retry attempts failed">>)

\* Line 286's test for attempt a with lastError le; then the attempt's
\* request (line 295), or line 340 when the loop is left.
EnterLoop(a, le) ==
  /\ attempt' = a
  /\ lastError' = le
  /\ IF a <= maxRetries
     THEN /\ calls' = calls + 1
          /\ pc' = "awaitGenerate"
          /\ error' = error
     ELSE /\ calls' = calls
          /\ pc' = "threw"
          /\ error' = IF le # Null THEN le
                      ELSE Err(<<"All retry attempts failed">>)

----------------------------------------------------------------------------
(* generateAsciiArt *)

\* The call, up to the first await: getAi, the prompt, the loop's entry and
\* the request of attempt 1.
generateAsciiArt(t, key, behaviour) ==
  /\ op = "none"
  /\ op' = "generateAsciiArt"
  /\ topic' = t
  /\ apiKey' = key
  /\ script' = behaviour
  /\ IF getAi(key).ok
     THEN EnterLoop(1, Null)
     ELSE /\ pc' = "threw"
          /\ error' = Err(getAi(key).message)
          /\ UNCHANGED <<attempt, lastError, calls>>
  /\ UNCHANGED <<textFlag, served, result, errorMessage, observed>>
  /\ UNCHANGED <<pulls, restVars>>

\* The awaited generateContent settles and the try block runs to its return.
GenerateAttemptReturns ==
  /\ op = "generateAsciiArt"
  /\ pc = "awaitGenerate"
  /\ LET outcome == TryGenerate(Upstream(served + 1), textFlag)
     IN /\ outcome.ok
        /\ result' = outcome.result
  /\ served' = served + 1
  /\ pc' = "returned"
  /\ UNCHANGED <<op, apiKey, textFlag, attempt, lastError, calls, script,
                 error, topic, errorMessage, observed>>
  /\ UNCHANGED <<pulls, restVars>>

\* The catch block of a loop that does not advance attempt (the run is cut
\* off, with the throw, two requests past the bound).
GenerateAttemptCaughtNoIncrement ==
  /\ op = "generateAsciiArt"
  /\ pc = "awaitGenerate"
  /\ LET outcome == TryGenerate(Upstream(served + 1), textFlag)
         caught == Caught(outcome)
     IN /\ ~outcome.ok
        /\ IF IsLastAttempt(attempt) \/ calls >= maxRetries + 2
           THEN /\ lastError' = caught
                /\ error' = Err(ExhaustedMsg(caught))
                /\ pc' = "threw"
                /\ UNCHANGED <<attempt, calls>>
           ELSE EnterLoop(attempt, caught)
  /\ served' = served + 1
  /\ UNCHANGED <<op, apiKey, textFlag, script, result, topic, errorMessage,
                 observed>>
  /\ UNCHANGED <<pulls, restVars>>

\* The awaited generateContent settles and the try block throws: the catch
\* block, then the next attempt's request or the final throw.
GenerateAttemptCaught ==
  /\ op = "generateAsciiArt"
  /\ pc = "awaitGenerate"
  /\ LET outcome == TryGenerate(Upstream(served + 1), textFlag)
         caught == Caught(outcome)
     IN /\ ~outcome.ok
        /\ IF IsLastAttempt(attempt)
           THEN /\ lastError' = caught
                /\ error' = Err(ExhaustedMsg(caught))
                /\ pc' = "threw"
                /\ UNCHANGED <<attempt, calls>>
           ELSE EnterLoop(attempt + 1, caught)
  /\ served' = served + 1
  /\ UNCHANGED <<op, apiKey, textFlag, script, result, topic, errorMessage,
                 observed>>
  /\ UNCHANGED <<pulls, restVars>>

----------------------------------------------------------------------------
(* getRandomWord *)

UnknownWordErrorMsg == <<"An unknown error occurred.">>

\* The try block returning the text untrimmed.
TryWordNoTrim(answer) ==
  CASE answer.kind = "text" -> Returned(Str(answer.text))
    [] answer.kind = "noText" -> Thrown(TrimOfUndefinedMsg)
    [] answer.kind = "error" -> Thrown(answer.message)
    [] answer.kind = "value" -> ThrownValue

\* Lines 92-101: the try block, given what generateContent settled to.
TryWord(answer) ==
  CASE answer.kind = "text" -> Returned(Str(Trim(answer.text)))
    [] answer.kind = "noText" -> Thrown(TrimOfUndefinedMsg)
    [] answer.kind = "error" -> Thrown(answer.message)
    [] answer.kind = "value" -> ThrownValue

\* Lines 104-106
WordErrorMsg(outcome) ==
  <<"Could not get random word: ">>
    \o (IF outcome.isError THEN outcome.message ELSE UnknownWordErrorMsg)

\* The call, up to the await: getAi and the one request.
getRandomWord(key, behaviour) ==
  /\ op = "none"
  /\ op' = "getRandomWord"
  /\ apiKey' = key
  /\ script' = behaviour
  /\ IF getAi(key).ok
     THEN /\ calls' = calls + 1
          /\ pc' = "awaitWord"
          /\ error' = error
     ELSE /\ calls' = calls
          /\ pc' = "threw"
          /\ error' = Err(getAi(key).message)
  /\ UNCHANGED <<textFlag, attempt, lastError, served, result, topic,
                 errorMessage, observed>>
  /\ UNCHANGED <<pulls, restVars>>

\* The awaited generateContent settles: return or the catch block's throw.
RandomWordSettles ==
  /\ op = "getRandomWord"
  /\ pc = "awaitWord"
  /\ LET outcome == TryWord(Upstream(served + 1))
     IN IF outcome.ok
        THEN /\ result' = outcome.result
             /\ pc' = "returned"
             /\ error' = error
        ELSE /\ result' = result
             /\ pc' = "threw"
             /\ error' = Err(WordErrorMsg(outcome))
  /\ served' = served + 1
  /\ UNCHANGED <<op, apiKey, textFlag, attempt, lastError, calls, script,
                 topic, errorMessage, observed>>
  /\ UNCHANGED <<pulls, restVars>>

----------------------------------------------------------------------------
(* streamDefinition: an async generator.  Its code runs only while the     *)
(* consumer's next() is being served, from one suspension to the next.     *)

\* chunk.text of the chunks the stream may deliver; "" is a chunk with no
\* text (chunk.text is falsy).
ChunkTexts == {"", "alpha", "beta"}

RECURSIVE SeqsUpTo(_, _)
SeqsUpTo(S, n) ==
  IF n = 0 THEN {<<>>}
  ELSE LET shorter == SeqsUpTo(S, n - 1)
       IN shorter \cup {Append(q, x) : q \in {r \in shorter : Len(r) = n - 1}, x \in S}

\* How the service behaves on one generateContentStream request: whether
\* the request itself settles ("ok") or rejects (with an Error, or with a
\* value that is no Error), the chunks the stream then delivers, and how it
\* goes on after the last of them: it ends, or its next() rejects.
StreamBehaviours ==
  [open : {"ok"}, chunks : SeqsUpTo(ChunkTexts, MaxChunks),
   end : {"done", "error", "value"}, message : NetworkErrors]
  \cup [open : {"error", "value"}, chunks : {<<>>}, end : {"done"},
        message : NetworkErrors]

KeyErrorFragment ==
  <<"Error: API_KEY is not configured. Please set your API key to continue.">>

\* Line 76
StreamErrorFragment(t, msg) ==
  <<"Error: Could not generate content for \"", t, "\". ">> \o msg
    \o <<". Please check if your API key is correct.">>

\* Lines 74-75
StreamErrorMessage(kind, msg) ==
  IF kind = "error" THEN msg ELSE UnknownWordErrorMsg

\* The call creates the generator; none of its body runs yet.
streamDefinition(t, key, behaviour) ==
  /\ op = "none"
  /\ op' = "streamDefinition"
  /\ topic' = t
  /\ apiKey' = key
  /\ script' = behaviour
  /\ pc' = "suspendedStart"
  /\ UNCHANGED <<textFlag, attempt, lastError, calls, served, result, error,
                 errorMessage, observed>>
  /\ UNCHANGED <<pulls, restVars>>

\* Lines 72-76: the catch block up to its yield.
StreamCatch(kind, msg) ==
  /\ errorMessage' = StreamErrorMessage(kind, msg)
  /\ observed' = Append(observed, StreamErrorFragment(topic, errorMessage'))
  /\ pc' = "suspendedCatch"

\* The first next() with neither the apiKey test nor getAi's.
NextFromStartUnchecked ==
  /\ op = "streamDefinition"
  /\ pc = "suspendedStart"
  /\ calls' = calls + 1
  /\ pc' = "awaitStream"
  /\ UNCHANGED <<op, apiKey, textFlag, attempt, lastError, script, served,
                 result, error, topic, errorMessage, observed>>
  /\ pulls' = pulls + 1
  /\ UNCHANGED restVars

\* The first next(): lines 49-58, to the yield of line 50 or to the await
\* of the request.
NextFromStart ==
  /\ op = "streamDefinition"
  /\ pc = "suspendedStart"
  /\ IF apiKey = ""
     THEN /\ observed' = Append(observed, KeyErrorFragment)
          /\ pc' = "suspendedKeyError"
          /\ UNCHANGED <<calls, error>>
     ELSE IF getAi(apiKey).ok
     THEN /\ calls' = calls + 1
          /\ pc' = "awaitStream"
          /\ UNCHANGED <<observed, error>>
     ELSE /\ pc' = "threw"
          /\ error' = Err(getAi(apiKey).message)
          /\ UNCHANGED <<calls, observed>>
  /\ UNCHANGED <<op, apiKey, textFlag, attempt, lastError, script, served,
                 result, topic, errorMessage>>
  /\ pulls' = pulls + 1
  /\ UNCHANGED restVars

\* next() after the yield of line 50: line 51 returns.
NextAfterKeyError ==
  /\ op = "streamDefinition"
  /\ pc = "suspendedKeyError"
  /\ pc' = "done"
  /\ UNCHANGED <<op, apiKey, textFlag, attempt, lastError, calls, script,
                 served, result, error, topic, errorMessage, observed>>
  /\ pulls' = pulls + 1
  /\ UNCHANGED restVars

\* The awaited generateContentStream settles: the for await loop asks the
\* stream for its first chunk, or the catch block runs.
StreamRequestSettles ==
  /\ op = "streamDefinition"
  /\ pc = "awaitStream"
  /\ IF script.open = "ok"
     THEN /\ pc' = "awaitChunk"
          /\ UNCHANGED <<errorMessage, observed>>
     ELSE StreamCatch(script.open, script.message)
  /\ UNCHANGED <<op, apiKey, textFlag, attempt, lastError, calls, script,
                 served, result, error, topic>>
  /\ UNCHANGED <<pulls, restVars>>

\* A loop that hands the text over and goes on to the next chunk without
\* waiting for the consumer's next().
StreamChunkArrivesEager ==
  /\ op = "streamDefinition"
  /\ pc = "awaitChunk"
  /\ served < Len(script.chunks)
  /\ served' = served + 1
  /\ LET text == script.chunks[served + 1]
     IN IF text # ""
        THEN /\ observed' = Append(observed, <<text>>)
             /\ pc' = "awaitChunk"
        ELSE /\ observed' = observed
             /\ pc' = "awaitChunk"
  /\ UNCHANGED <<op, apiKey, textFlag, attempt, lastError, calls, script,
                 result, error, topic, errorMessage>>
  /\ UNCHANGED <<pulls, restVars>>

\* The loop body without the test of chunk.text.
StreamChunkArrivesUnfiltered ==
  /\ op = "streamDefinition"
  /\ pc = "awaitChunk"
  /\ served < Len(script.chunks)
  /\ served' = served + 1
  /\ observed' = Append(observed, <<script.chunks[served + 1]>>)
  /\ pc' = "suspendedYield"
  /\ UNCHANGED <<op, apiKey, textFlag, attempt, lastError, calls, script,
                 result, error, topic, errorMessage>>
  /\ UNCHANGED <<pulls, restVars>>

\* The stream delivers a chunk: line 68 yields its text, or skips it and
\* asks for the next one.
StreamChunkArrives ==
  /\ op = "streamDefinition"
  /\ pc = "awaitChunk"
  /\ served < Len(script.chunks)
  /\ served' = served + 1
  /\ LET text == script.chunks[served + 1]
     IN IF text # ""
        THEN /\ observed' = Append(observed, <<text>>)
             /\ pc' = "suspendedYield"
        ELSE /\ observed' = observed
             /\ pc' = "awaitChunk"
  /\ UNCHANGED <<op, apiKey, textFlag, attempt, lastError, calls, script,
                 result, error, topic, errorMessage>>
  /\ UNCHANGED <<pulls, restVars>>

\* The stream is exhausted: the loop and the generator end.
StreamEnds ==
  /\ op = "streamDefinition"
  /\ pc = "awaitChunk"
  /\ served = Len(script.chunks)
  /\ script.end = "done"
  /\ pc' = "done"
  /\ UNCHANGED <<op, apiKey, textFlag, attempt, lastError, calls, script,
                 served, result, error, topic, errorMessage, observed>>
  /\ UNCHANGED <<pulls, restVars>>

\* The stream's next() rejects: the catch block runs to its yield.
StreamFails ==
  /\ op = "streamDefinition"
  /\ pc = "awaitChunk"
  /\ served = Len(script.chunks)
  /\ script.end # "done"
  /\ StreamCatch(script.end, script.message)
  /\ UNCHANGED <<op, apiKey, textFlag, attempt, lastError, calls, script,
                 served, result, error, topic>>
  /\ UNCHANGED <<pulls, restVars>>

\* next() after the yield of line 69: the loop asks for the next chunk.
NextAfterYield ==
  /\ op = "streamDefinition"
  /\ pc = "suspendedYield"
  /\ pc' = "awaitChunk"
  /\ UNCHANGED <<op, apiKey, textFlag, attempt, lastError, calls, script,
                 served, result, error, topic, errorMessage, observed>>
  /\ pulls' = pulls + 1
  /\ UNCHANGED restVars

\* The catch block without its throw.
NextAfterCatchReturns ==
  /\ op = "streamDefinition"
  /\ pc = "suspendedCatch"
  /\ pc' = "done"
  /\ UNCHANGED <<op, apiKey, textFlag, attempt, lastError, calls, script,
                 served, result, error, topic, errorMessage, observed>>
  /\ pulls' = pulls + 1
  /\ UNCHANGED restVars

\* next() after the yield of line 76: line 78 throws.
NextAfterCatch ==
  /\ op = "streamDefinition"
  /\ pc = "suspendedCatch"
  /\ pc' = "threw"
  /\ error' = Err(errorMessage)
  /\ UNCHANGED <<op, apiKey, textFlag, attempt, lastError, calls, script,
                 served, result, topic, errorMessage, observed>>
  /\ pulls' = pulls + 1
  /\ UNCHANGED restVars

----------------------------------------------------------------------------
(* The specification: one invocation of one exported function *)

Init ==
  /\ op = "none"
  /\ pc = "idle"
  /\ apiKey = ""
  /\ textFlag \in TextToggleBuilds
  /\ attempt = 0
  /\ lastError = Null
  /\ calls = 0
  /\ script = <<>>
  /\ served = 0
  /\ result = NoResult
  /\ error = Null
  /\ topic = ""
  /\ errorMessage = <<>>
  /\ observed = <<>>
  /\ pulls = 0
  /\ body = <<>>
  /\ wrap = [label |-> FALSE, before |-> <<>>, after |-> <<>>]
  /\ plain = ThrownValue
  /\ fenced = ThrownValue
  /\ applied = FALSE
  /\ AdUnused
  /\ ConcUnused

CallGenerateAsciiArt ==
  \E t \in Topics, key \in ApiKeys, behaviour \in [1..maxRetries -> ArtAnswers] :
    generateAsciiArt(t, key, behaviour)

CallGetRandomWord ==
  \E key \in ApiKeys, behaviour \in [1..1 -> WordAnswers] :
    getRandomWord(key, behaviour)

CallStreamDefinition ==
  \E t \in Topics, key \in ApiKeys, behaviour \in StreamBehaviours :
    streamDefinition(t, key, behaviour)

Next ==
  \/ CallGenerateAsciiArt
  \/ GenerateAttemptReturns
  \/ GenerateAttemptCaught
  \/ CallGetRandomWord
  \/ RandomWordSettles
  \/ CallStreamDefinition
  \/ NextFromStart
  \/ NextAfterKeyError
  \/ StreamRequestSettles
  \/ StreamChunkArrives
  \/ StreamEnds
  \/ StreamFails
  \/ NextAfterYield
  \/ NextAfterCatch

Spec == Init /\ [][Next]_vars

\* The awaited generateContent of an attempt settles, either way, and the code
\* after the await runs (GenerateAttemptReturns or GenerateAttemptCaught).
GenerateRequestSettles ==
  /\ op = "generateAsciiArt"
  /\ pc = "awaitGenerate"
  /\ served' = served + 1

\* The same under the proviso that every awaited generateContent settles.
FairSpec ==
  /\ Spec
  /\ WF_served(GenerateRequestSettles)

----------------------------------------------------------------------------
(* One attempt on a response text, bare and wrapped in a code fence *)

FenceAlphabet == {FENCE, JSONWORD, NL, LBRACE, RBRACE, ArtX}

\* The ways a text is wrapped: the fence labelled json or not, whitespace
\* or none after the opening fence and before the closing one.
Wraps == [label : BOOLEAN, before : {<<>>, <<NL>>}, after : {<<>>, <<NL>>}]

Fence(b, w) ==
  <<FENCE>> \o (IF w.label THEN <<JSONWORD>> ELSE <<>>) \o w.before \o b
    \o w.after \o <<FENCE>>

InitFence ==
  /\ op = "none"
  /\ pc = "idle"
  /\ apiKey = ""
  /\ textFlag = ENABLE_ASCII_TEXT_GENERATION
  /\ attempt = 0
  /\ lastError = Null
  /\ calls = 0
  /\ script = <<>>
  /\ served = 0
  /\ result = NoResult
  /\ error = Null
  /\ topic = ""
  /\ errorMessage = <<>>
  /\ observed = <<>>
  /\ pulls = 0
  /\ body \in SeqsUpTo(FenceAlphabet, MaxBody)
  /\ wrap \in Wraps
  /\ plain = ThrownValue
  /\ fenced = ThrownValue
  /\ applied = FALSE
  /\ AdUnused
  /\ ConcUnused

\* The try block of an attempt on the bare text and on the fenced one.
ApplyFence ==
  /\ ~applied
  /\ applied' = TRUE
  /\ plain' = TryGenerate(Resolved(body), textFlag)
  /\ fenced' = TryGenerate(Resolved(Fence(body, wrap)), textFlag)
  /\ UNCHANGED <<op, pc, apiKey, textFlag, attempt, lastError, calls, script,
                 served, result, error, topic, errorMessage, observed, pulls,
                 body, wrap, adVars, concVars>>

NextFence == ApplyFence

SpecFence == InitFence /\ [][NextFence]_vars

----------------------------------------------------------------------------
(* AdBanner: the effect that shows the native banner and its cleanup *)

MaxMounts == 2

\* No exported function of the service is invoked; no fence comparison.
ServiceUnused ==
  /\ op = "none"
  /\ pc = "idle"
  /\ apiKey = ""
  /\ textFlag = ENABLE_ASCII_TEXT_GENERATION
  /\ attempt = 0
  /\ lastError = Null
  /\ calls = 0
  /\ script = <<>>
  /\ served = 0
  /\ result = NoResult
  /\ error = Null
  /\ topic = ""
  /\ errorMessage = <<>>
  /\ observed = <<>>
  /\ pulls = 0

FenceUnused ==
  /\ body = <<>>
  /\ wrap = [label |-> FALSE, before |-> <<>>, after |-> <<>>]
  /\ plain = ThrownValue
  /\ fenced = ThrownValue
  /\ applied = FALSE

\* An effect that runs the AdMob logic on every platform.
isNativePlatformAlways == TRUE

\* Line 11
isNativePlatform == native

\* An async function of the effect, started: it runs to its await of the
\* dynamic import (line 15, line 44).
Task(kind, k) == [kind |-> kind, mount |-> k, pc |-> "import", accepted |-> TRUE]

\* The plugin call of a task (line 31, line 45).
PluginCall(task) ==
  [call |-> IF task.kind = "show" THEN "showBanner" ELSE "hideBanner",
   mount |-> task.mount]

\* The component mounts and React runs the effect (lines 9-52).
Mount ==
  /\ ~mounted
  /\ mounts < MaxMounts
  /\ mounted' = TRUE
  /\ mounts' = mounts + 1
  /\ IF isNativePlatform
     THEN tasks' = Append(tasks, Task("show", mounts + 1))
     ELSE tasks' = tasks
  /\ UNCHANGED <<native, bridge, banner>>
  /\ UNCHANGED <<serviceVars, fenceVars, concVars>>

\* The component unmounts and React runs the cleanup the effect returned
\* (lines 40-50), if it returned one.
Unmount ==
  /\ mounted
  /\ mounted' = FALSE
  /\ IF isNativePlatform
     THEN tasks' = Append(tasks, Task("hide", mounts))
     ELSE tasks' = tasks
  /\ UNCHANGED <<native, mounts, bridge, banner>>
  /\ UNCHANGED <<serviceVars, fenceVars, concVars>>

\* The dynamic import a task awaits resolves: the task calls the plugin and
\* awaits the call.  The plugin takes the call (the banner is shown, or
\* hidden) or refuses it.
ImportResolves(i, taken) ==
  /\ i \in 1..Len(tasks)
  /\ tasks[i].pc = "import"
  /\ tasks' = [tasks EXCEPT ![i].pc = "call", ![i].accepted = taken]
  /\ bridge' = Append(bridge, PluginCall(tasks[i]))
  /\ banner' = IF taken THEN tasks[i].kind = "show" ELSE banner
  /\ UNCHANGED <<native, mounted, mounts>>
  /\ UNCHANGED <<serviceVars, fenceVars, concVars>>

\* The dynamic import rejects: the catch block logs (lines 32-34, 46-48).
ImportRejects(i) ==
  /\ i \in 1..Len(tasks)
  /\ tasks[i].pc = "import"
  /\ tasks' = [tasks EXCEPT ![i].pc = "failed"]
  /\ UNCHANGED <<native, mounted, mounts, bridge, banner>>
  /\ UNCHANGED <<serviceVars, fenceVars, concVars>>

\* The awaited plugin call settles: the async function ends, through its
\* catch block when the call rejected.
CallSettles(i) ==
  /\ i \in 1..Len(tasks)
  /\ tasks[i].pc = "call"
  /\ tasks' = [tasks EXCEPT ![i].pc = IF tasks[i].accepted THEN "done" ELSE "failed"]
  /\ UNCHANGED <<native, mounted, mounts, bridge, banner>>
  /\ UNCHANGED <<serviceVars, fenceVars, concVars>>

InitAd ==
  /\ ServiceUnused
  /\ FenceUnused
  /\ ConcUnused
  /\ native \in BOOLEAN
  /\ mounted = FALSE
  /\ mounts = 0
  /\ tasks = <<>>
  /\ bridge = <<>>
  /\ banner = FALSE

NextAd ==
  \/ Mount
  \/ Unmount
  \/ \E i \in 1..(2 * MaxMounts), taken \in BOOLEAN : ImportResolves(i, taken)
  \/ \E i \in 1..(2 * MaxMounts) : ImportRejects(i)
  \/ \E i \in 1..(2 * MaxMounts) : CallSettles(i)

SpecAd == InitAd /\ [][NextAd]_vars

----------------------------------------------------------------------------
(* Independent callers: several invocations in flight at once *)

MaxInvocations == 2

Invocations == 1..MaxInvocations

\* What the service answers the concurrent callers with: for each function a
\* few behaviours, successes and failures of different kinds.
GoodArt == Resolved(<<LBRACE, ArtX, RBRACE>>)
BlankArtText == Resolved(<<LBRACE, ArtBlank, RBRACE>>)
Down == Rejected(<<"fetch failed">>)

ConcArtScripts ==
  { <<GoodArt, GoodArt, GoodArt>>,
    <<Down, GoodArt, GoodArt>>,
    <<Down, BlankArtText, GoodArt>>,
    <<BlankArtText, Down, BlankArtText>>,
    <<Down, BlankArtText, Down>> }

ConcWordScripts == { <<Resolved(<<SP, "w", NL>>)>>, <<RejectedValue>> }

ConcStreamBehaviours ==
  { [open |-> "ok", chunks |-> <<"", "alpha">>, end |-> "done",
     message |-> <<"fetch failed">>],
    [open |-> "ok", chunks |-> <<"alpha">>, end |-> "error",
     message |-> <<"fetch failed">>],
    [open |-> "value", chunks |-> <<>>, end |-> "done",
     message |-> <<"fetch failed">>] }

\* The event a script answers request number k with.
UpstreamOf(behaviour, k) ==
  IF k \in 1..Len(behaviour) THEN behaviour[k] ELSE Rejected(<<"fetch failed">>)

\* An invocation not made yet, and the locals of its generateAsciiArt.
IdleInvocation ==
  [op |-> "none", pc |-> "idle", apiKey |-> "", topic |-> "", script |-> <<>>,
   served |-> 0, calls |-> 0, result |-> NoResult, error |-> Null,
   errorMessage |-> <<>>, observed |-> <<>>]

IdleFrame == [attempt |-> 0, lastError |-> Null]

\* One activation record for all the invocations.
FrameShared(i) == 1

\* Lines 283-286: maxRetries, lastError and attempt are locals of the call,
\* so each invocation has its own.
Frame(i) == i

\* Lines 286 and 340 for invocation i, whose record is to become base.
ConcEnterLoop(i, base, a, le) ==
  /\ frames' = [frames EXCEPT ![Frame(i)] = [attempt |-> a, lastError |-> le]]
  /\ inv' = [inv EXCEPT ![i] =
              IF a <= maxRetries
              THEN [base EXCEPT !.calls = @ + 1, !.pc = "awaitGenerate"]
              ELSE [base EXCEPT !.pc = "threw",
                                !.error = IF le # Null THEN le
                                          ELSE Err(<<"All retry attempts failed">>)]]

\* A caller invokes generateAsciiArt: lines 119-299, to the first await.
ConcGenerateAsciiArt(i, t, key, behaviour) ==
  /\ inv[i].op = "none"
  /\ LET base == [inv[i] EXCEPT !.op = "generateAsciiArt", !.topic = t,
                                !.apiKey = key, !.script = behaviour]
     IN IF getAi(key).ok
        THEN ConcEnterLoop(i, base, 1, Null)
        ELSE /\ inv' = [inv EXCEPT ![i] =
                         [base EXCEPT !.pc = "threw",
                                      !.error = Err(getAi(key).message)]]
             /\ frames' = frames
  /\ UNCHANGED <<serviceVars, fenceVars, adVars>>

\* The awaited generateContent of invocation i settles: lines 301-338.
ConcGenerateSettles(i) ==
  /\ inv[i].op = "generateAsciiArt"
  /\ inv[i].pc = "awaitGenerate"
  /\ LET me == inv[i]
         outcome == TryGenerate(UpstreamOf(me.script, me.served + 1), textFlag)
         caught == Caught(outcome)
         base == [me EXCEPT !.served = @ + 1]
     IN IF outcome.ok
        THEN /\ inv' = [inv EXCEPT ![i] =
                         [base EXCEPT !.result = outcome.result,
                                      !.pc = "returned"]]
             /\ frames' = frames
        ELSE IF IsLastAttempt(frames[Frame(i)].attempt)
        THEN /\ frames' = [frames EXCEPT ![Frame(i)].lastError = caught]
             /\ inv' = [inv EXCEPT ![i] =
                         [base EXCEPT !.pc = "threw",
                                      !.error = Err(ExhaustedMsg(caught))]]
        ELSE ConcEnterLoop(i, base, frames[Frame(i)].attempt + 1, caught)
  /\ UNCHANGED <<serviceVars, fenceVars, adVars>>

\* A caller invokes getRandomWord: lines 89-97, to the await.
ConcGetRandomWord(i, key, behaviour) ==
  /\ inv[i].op = "none"
  /\ LET base == [inv[i] EXCEPT !.op = "getRandomWord", !.apiKey = key,
                                !.script = behaviour]
     IN inv' = [inv EXCEPT ![i] =
                 IF getAi(key).ok
                 THEN [base EXCEPT !.calls = @ + 1, !.pc = "awaitWord"]
                 ELSE [base EXCEPT !.pc = "threw",
                                   !.error = Err(getAi(key).message)]]
  /\ UNCHANGED frames
  /\ UNCHANGED <<serviceVars, fenceVars, adVars>>

\* The awaited generateContent of getRandomWord settles: lines 101-106.
ConcRandomWordSettles(i) ==
  /\ inv[i].op = "getRandomWord"
  /\ inv[i].pc = "awaitWord"
  /\ LET me == inv[i]
         outcome == TryWord(UpstreamOf(me.script, me.served + 1))
         base == [me EXCEPT !.served = @ + 1]
     IN inv' = [inv EXCEPT ![i] =
                 IF outcome.ok
                 THEN [base EXCEPT !.result = outcome.result, !.pc = "returned"]
                 ELSE [base EXCEPT !.pc = "threw",
                                   !.error = Err(WordErrorMsg(outcome))]]
  /\ UNCHANGED frames
  /\ UNCHANGED <<serviceVars, fenceVars, adVars>>

\* A caller invokes streamDefinition: the generator is created.
ConcStreamDefinition(i, t, key, behaviour) ==
  /\ inv[i].op = "none"
  /\ inv' = [inv EXCEPT ![i] =
              [@ EXCEPT !.op = "streamDefinition", !.topic = t, !.apiKey = key,
                        !.script = behaviour, !.pc = "suspendedStart"]]
  /\ UNCHANGED frames
  /\ UNCHANGED <<serviceVars, fenceVars, adVars>>

\* Lines 72-76 on the record of a generator.
ConcStreamCatch(me, kind, msg) ==
  [me EXCEPT !.errorMessage = StreamErrorMessage(kind, msg),
             !.observed = Append(@, StreamErrorFragment(me.topic,
                                      StreamErrorMessage(kind, msg))),
             !.pc = "suspendedCatch"]

\* The consumer of generator i calls next(): the body runs from where it
\* was suspended to its next await, yield, return or throw.
ConcStreamNext(i) ==
  /\ inv[i].op = "streamDefinition"
  /\ inv[i].pc \in {"suspendedStart", "suspendedKeyError", "suspendedYield",
                    "suspendedCatch"}
  /\ LET me == inv[i]
     IN inv' = [inv EXCEPT ![i] =
                 CASE me.pc = "suspendedStart" ->
                        IF me.apiKey = ""
                        THEN [me EXCEPT !.observed = Append(@, KeyErrorFragment),
                                        !.pc = "suspendedKeyError"]
                        ELSE IF getAi(me.apiKey).ok
                        THEN [me EXCEPT !.calls = @ + 1, !.pc = "awaitStream"]
                        ELSE [me EXCEPT !.pc = "threw",
                                        !.error = Err(getAi(me.apiKey).message)]
                   [] me.pc = "suspendedKeyError" -> [me EXCEPT !.pc = "done"]
                   [] me.pc = "suspendedYield" -> [me EXCEPT !.pc = "awaitChunk"]
                   [] me.pc = "suspendedCatch" ->
                        [me EXCEPT !.pc = "threw",
                                   !.error = Err(me.errorMessage)]]
  /\ UNCHANGED frames
  /\ UNCHANGED <<serviceVars, fenceVars, adVars>>

\* What generator i awaits settles: the request, or the stream's next chunk,
\* end or failure (lines 58-71, and the catch block to its yield).
ConcStreamSettles(i) ==
  /\ inv[i].op = "streamDefinition"
  /\ inv[i].pc \in {"awaitStream", "awaitChunk"}
  /\ LET me == inv[i]
         b == me.script
     IN inv' = [inv EXCEPT ![i] =
                 IF me.pc = "awaitStream"
                 THEN IF b.open = "ok"
                      THEN [me EXCEPT !.pc = "awaitChunk"]
                      ELSE ConcStreamCatch(me, b.open, b.message)
                 ELSE IF me.served < Len(b.chunks)
                 THEN IF b.chunks[me.served + 1] # ""
                      THEN [me EXCEPT !.served = @ + 1,
                                      !.observed = Append(@, <<b.chunks[me.served + 1]>>),
                                      !.pc = "suspendedYield"]
                      ELSE [me EXCEPT !.served = @ + 1]
                 ELSE IF b.end = "done"
                 THEN [me EXCEPT !.pc = "done"]
                 ELSE ConcStreamCatch(me, b.end, b.message)]
  /\ UNCHANGED frames
  /\ UNCHANGED <<serviceVars, fenceVars, adVars>>

InitConc ==
  /\ ServiceUnused
  /\ FenceUnused
  /\ AdUnused
  /\ inv = [i \in Invocations |-> IdleInvocation]
  /\ frames = [i \in Invocations |-> IdleFrame]

NextConc ==
  \/ \E i \in Invocations, t \in Topics, key \in ApiKeys, behaviour \in ConcArtScripts :
       ConcGenerateAsciiArt(i, t, key, behaviour)
  \/ \E i \in Invocations : ConcGenerateSettles(i)
  \/ \E i \in Invocations, key \in ApiKeys, behaviour \in ConcWordScripts :
       ConcGetRandomWord(i, key, behaviour)
  \/ \E i \in Invocations : ConcRandomWordSettles(i)
  \/ \E i \in Invocations, t \in Topics, key \in ApiKeys, behaviour \in ConcStreamBehaviours :
       ConcStreamDefinition(i, t, key, behaviour)
  \/ \E i \in Invocations : ConcStreamNext(i)
  \/ \E i \in Invocations : ConcStreamSettles(i)

SpecConc == InitConc /\ [][NextConc]_vars

----------------------------------------------------------------------------
(* Properties *)

IsGenerate == op = "generateAsciiArt"
IsStream == op = "streamDefinition"

\* Whether attempt i of the invocation's script passes the try block.
Accepted(i) == TryGenerate(script[i], textFlag).ok

\* The first attempt of the script that passes, 0 when none does.
FirstAccepted ==
  LET ok == {k \in 1..Len(script) : Accepted(k)}
  IN IF ok = {} THEN 0 ELSE SetMin(ok)

\* C1: with an empty apiKey, generateAsciiArt and getRandomWord reject at
\* once with getAi's error, unwrapped; no request is issued, no attempt is
\* counted, no failure recorded, nothing returned.
C1_MissingKeyFailsAtOnce ==
  (op \in {"generateAsciiArt", "getRandomWord"} /\ apiKey = "") =>
    /\ pc = "threw"
    /\ error = Err(<<"API Key is missing. Please provide a valid API key.">>)
    /\ calls = 0
    /\ served = 0
    /\ attempt = 0
    /\ lastError = Null
    /\ result = NoResult

C1_Witness ==
  /\ IsGenerate
  /\ apiKey = ""
  /\ pc = "threw"

\* C2: with a key and maxRetries = 3, when the first attempt to pass
\* validation is attempt k, the invocation never throws, has one request
\* outstanding per attempt up to k and none beyond, and ends returned with
\* the result of attempt k's response after exactly k requests.
C2_ReturnsFirstAcceptedAttempt ==
  (IsGenerate /\ apiKey # "" /\ FirstAccepted \in 1..3) =>
    /\ maxRetries = 3
    /\ pc \in {"awaitGenerate", "returned"}
    /\ calls <= FirstAccepted
    /\ pc = "awaitGenerate" => (served < FirstAccepted /\ calls = served + 1)
    /\ pc = "returned" =>
         /\ calls = FirstAccepted
         /\ served = FirstAccepted
         /\ result = TryGenerate(script[FirstAccepted], textFlag).result

C2_Witness ==
  /\ IsGenerate
  /\ pc = "returned"
  /\ FirstAccepted = 3
  /\ calls = 3
  /\ result.art = Str(<<"y">>)

\* The message the catch block records for a failed attempt i.
FailureMessage(i) == Caught(TryGenerate(script[i], textFlag)).message

\* C3: when all three attempts fail, whatever the causes, nothing is ever
\* returned, and the one error thrown comes after the third request, names
\* "3 attempts" and ends with the message of the third failure.
C3_ExhaustedCarriesLastFailure ==
  (IsGenerate /\ apiKey # "" /\ FirstAccepted = 0) =>
    /\ pc \in {"awaitGenerate", "threw"}
    /\ result = NoResult
    /\ pc = "awaitGenerate" => error = Null
    /\ pc = "threw" =>
         /\ calls = 3
         /\ served = 3
         /\ error = Err(<<"Could not generate ASCII art after ", "3", " attempts: ">>
                          \o FailureMessage(3))

C3_Witness ==
  /\ IsGenerate
  /\ apiKey # ""
  /\ pc = "threw"
  /\ FirstAccepted = 0
  /\ FailureMessage(1) # FailureMessage(3)
  /\ FailureMessage(2) # FailureMessage(3)

\* C4: a result is returned only with an art that is a string holding at
\* least one character that is not whitespace.
C4_ReturnedArtNotBlank ==
  (IsGenerate /\ (pc = "returned" \/ result # NoResult)) =>
    /\ result.tag = "AsciiArtData"
    /\ result.art.type = "string"
    /\ \E i \in 1..Len(result.art.chars) : result.art.chars[i] \notin {SP, NL}

C4_Witness ==
  /\ IsGenerate
  /\ pc = "returned"
  /\ served = 2

\* Whether the answer is a response that parses to an object whose art is an
\* empty or whitespace-only string.
BlankArt(answer) ==
  /\ answer.kind = "text"
  /\ LET jsonStr == StripFence(answer.text)
     IN /\ LooksLikeObject(jsonStr)
        /\ JsonParse(jsonStr).ok
        /\ JsonParse(jsonStr).art.type = "string"
        /\ \A i \in 1..Len(JsonParse(jsonStr).art.chars) :
             JsonParse(jsonStr).art.chars[i] \in {SP, NL}

\* The step in which the outstanding request is answered with a blank art.
BlankArtAnswered ==
  /\ IsGenerate
  /\ pc = "awaitGenerate"
  /\ served' = served + 1
  /\ BlankArt(Upstream(served'))

\* C5 as stated: every attempt answered with an empty or whitespace-only art
\* is rejected and followed by the next attempt's request.
C5_BlankArtAlwaysRetried ==
  [][BlankArtAnswered =>
       (result' = NoResult /\ pc' = "awaitGenerate" /\ calls' = calls + 1)]_vars

\* C5, amended: an attempt answered with an empty or whitespace-only art is
\* rejected; on attempts 1 and 2 the next attempt's request follows, on
\* attempt 3 no request follows and the invocation throws.
C5_BlankArtRetriedBelowBound ==
  [][BlankArtAnswered =>
       /\ result' = NoResult
       /\ lastError' = Err(<<"Invalid or empty ASCII art in response">>)
       /\ IF attempt < 3
          THEN pc' = "awaitGenerate" /\ calls' = calls + 1 /\ attempt' = attempt + 1
          ELSE pc' = "threw" /\ calls' = calls /\ attempt' = attempt]_vars

C5_Witness ==
  /\ IsGenerate
  /\ served = 1
  /\ BlankArt(script[1])
  /\ pc = "awaitGenerate"
  /\ calls = 2

SameOutcome(a, b) == a.ok = b.ok /\ (a.ok => a.result = b.result)

\* C6 as stated: for every body, the attempt on the fenced text ends as the
\* attempt on the bare text does: the same result, or both rejected.
C6_FencedSameAsBare ==
  applied => SameOutcome(plain, fenced)

\* C6, amended: for every body whose trimmed text begins neither with a code
\* fence nor with the word json, the attempt on the fenced text (labelled
\* json or not, with or without whitespace inside the fence) ends as the
\* attempt on the bare text does: the same result, or both rejected.
C6_FencedSameAsBareUnlessFenceFirst ==
  (applied /\ (Trim(body) = <<>> \/ Trim(body)[1] \notin {FENCE, JSONWORD})) =>
    SameOutcome(plain, fenced)

C6_Witness ==
  /\ applied
  /\ body = <<LBRACE, ArtX, RBRACE>>
  /\ wrap = [label |-> TRUE, before |-> <<NL>>, after |-> <<NL>>]
  /\ plain.ok
  /\ fenced.ok
  /\ fenced.result.art = Str(<<"x">>)

\* The fields of the response the returned result was built from.
ResponseFields == JsonParse(StripFence(script[served].text))

\* C7: the returned result holds the response's art; it holds a text only
\* in a build with the toggle on and for a response that had a text field,
\* and then that text; otherwise it holds the art alone.
C7_TextOnlyUnderToggle ==
  (IsGenerate /\ pc = "returned") =>
    /\ result.art = ResponseFields.art
    /\ IF result.hasText
       THEN /\ textFlag
            /\ ResponseFields.text # Undefined
            /\ result.text = ResponseFields.text
       ELSE result.text = Undefined

C7_Witness ==
  /\ IsGenerate
  /\ pc = "returned"
  /\ ~textFlag
  /\ ResponseFields.text = Str(<<"t">>)
  /\ ~result.hasText

IsErrorFragment(f) ==
  \/ f = <<"Error: API_KEY is not configured. Please set your API key to continue.">>
  \/ f[1] = "Error: Could not generate content for \""

IsPrefix(a, b) == Len(a) <= Len(b) /\ SubSeq(b, 1, Len(a)) = a

\* The upstream of the invocation fails: at the request, or after its chunks.
UpstreamFails == script.open # "ok" \/ script.end # "done"

\* The message of the upstream's failure, as the catch block takes it.
FailureText ==
  IF (IF script.open # "ok" THEN script.open ELSE script.end) = "error"
  THEN script.message
  ELSE <<"An unknown error occurred.">>

ExpectedErrorFragment ==
  <<"Error: Could not generate content for \"", topic, "\". ">> \o FailureText
    \o <<". Please check if your API key is correct.">>

AsFragments(texts) == [i \in 1..Len(texts) |-> <<texts[i]>>]

\* What the consumer is to have observed of a failing upstream when the
\* generator has thrown, and a prefix of it before.
ObservesUntilThrow(expected) ==
  /\ IsPrefix(observed, expected)
  /\ pc # "done"
  /\ pc \in {"suspendedCatch", "threw"} <=> observed = expected
  /\ pc = "threw" <=> error # Null
  /\ pc = "threw" => error = Err(FailureText)

\* C8 as stated: when the upstream delivers n chunks and then fails, the
\* consumer observes those n chunks in order, then one error fragment, then
\* the thrown error, and nothing after the error fragment.
C8_AllChunksThenErrorThenThrow ==
  (IsStream /\ apiKey # "" /\ UpstreamFails) =>
    ObservesUntilThrow(AsFragments(script.chunks) \o <<ExpectedErrorFragment>>)

\* C8, amended: when the upstream delivers n chunks and then fails, the
\* consumer observes those of the n chunks whose text is not empty, in
\* order, then one error fragment, then the thrown error, and nothing after
\* the error fragment.
C8_TextChunksThenErrorThenThrow ==
  (IsStream /\ apiKey # "" /\ UpstreamFails) =>
    ObservesUntilThrow(
      AsFragments(SelectSeq(script.chunks, LAMBDA c : c # ""))
        \o <<ExpectedErrorFragment>>)

C8_Witness ==
  /\ IsStream
  /\ pc = "threw"
  /\ script.chunks = <<"alpha">>
  /\ Len(observed) = 2
  /\ observed[1] = <<"alpha">>
  /\ IsErrorFragment(observed[2])

\* The last fragment the consumer received is an error fragment.
ErrorFragmentEmitted ==
  /\ IsStream
  /\ observed # <<>>
  /\ IsErrorFragment(observed[Len(observed)])

\* No fragment but the last is an error fragment.
ErrorFragmentOnlyLast ==
  \A i \in 1..(Len(observed) - 1) : ~IsErrorFragment(observed[i])

\* C9 as stated: an error fragment, whatever its cause, is the last
\* fragment, and what the generator does next is throw.
C9_ErrorFragmentThenThrow ==
  [][/\ IsStream' => ErrorFragmentOnlyLast'
     /\ ErrorFragmentEmitted =>
          (observed' = observed /\ pc' = "threw" /\ error' # Null)]_vars

\* C9, amended: an error fragment is the last fragment; after the error
\* fragment of an upstream failure what the generator does next is throw,
\* and after the error fragment of a missing apiKey it ends without
\* throwing.
C9_ErrorFragmentThenThrowUnlessNoKey ==
  [][/\ IsStream' => ErrorFragmentOnlyLast'
     /\ ErrorFragmentEmitted =>
          /\ observed' = observed
          /\ IF apiKey = ""
             THEN pc' = "done" /\ error' = Null
             ELSE pc' = "threw" /\ error' = Err(errorMessage)]_vars

C9_Witness ==
  /\ IsStream
  /\ apiKey = ""
  /\ pc = "done"
  /\ ErrorFragmentEmitted
  /\ error = Null

\* C10: streamDefinition with an empty apiKey never issues a request,
\* however far the consumer pulls.
C10_NoKeyNoStreamRequest ==
  (IsStream /\ apiKey = "") =>
    /\ calls = 0
    /\ served = 0
    /\ pc \in {"suspendedStart", "suspendedKeyError", "done"}

C10_Witness ==
  /\ IsStream
  /\ apiKey = ""
  /\ pc = "done"
  /\ calls = 0

IsWord == op = "getRandomWord"

\* The text with its leading and trailing whitespace removed.
Trimmed(text) ==
  LET inked == {i \in 1..Len(text) : text[i] \notin {SP, NL}}
  IN IF inked = {} THEN <<>>
     ELSE [i \in 1..(SetMax(inked) - SetMin(inked) + 1) |-> text[SetMin(inked) + i - 1]]

\* The message of the failure of getRandomWord's one request, or of the
\* handling of its response.
WordFailureText ==
  CASE script[1].kind = "error" -> script[1].message
    [] script[1].kind = "noText" ->
         <<"Cannot read properties of undefined (reading 'trim')">>
    [] script[1].kind = "value" -> <<"An unknown error occurred.">>

\* C11: getRandomWord with a key issues one request and no other; when the
\* request or the handling of its response fails, it throws one error,
\* "Could not get random word: " followed by the failure's message, and
\* returns nothing; otherwise it returns the response text trimmed.
C11_RandomWordSingleShot ==
  (IsWord /\ apiKey # "") =>
    /\ calls = 1
    /\ attempt = 0
    /\ pc \in {"awaitWord", "returned", "threw"}
    /\ pc = "awaitWord" => (served = 0 /\ result = NoResult /\ error = Null)
    /\ pc # "awaitWord" =>
         /\ served = 1
         /\ IF script[1].kind = "text"
            THEN /\ pc = "returned"
                 /\ result = Str(Trimmed(script[1].text))
                 /\ error = Null
            ELSE /\ pc = "threw"
                 /\ result = NoResult
                 /\ error = Err(<<"Could not get random word: ">> \o WordFailureText)

C11_Witness ==
  /\ IsWord
  /\ pc = "returned"
  /\ script[1].text = <<SP, "w", NL>>
  /\ result = Str(<<"w">>)
  /\ calls = 1

\* The failure category of an answer to an attempt: "none" when the try
\* block accepts it.
FailureCategory(answer) ==
  IF answer.kind \in {"error", "value"} THEN "network"
  ELSE IF answer.kind = "noText" THEN "noText"
  ELSE LET jsonStr == StripFence(answer.text)
       IN IF ~LooksLikeObject(jsonStr) THEN "notObject"
          ELSE IF ~JsonParse(jsonStr).ok THEN "parse"
          ELSE IF \/ JsonParse(jsonStr).art.type # "string"
                  \/ \A i \in 1..Len(JsonParse(jsonStr).art.chars) :
                       JsonParse(jsonStr).art.chars[i] \in {SP, NL}
               THEN "art"
          ELSE "none"

\* C12: an attempt k < 3 that fails, in whatever category (network or
\* service error, text that is no {...} object, JSON parse failure, missing
\* or empty art), is followed by the request of attempt k + 1; the
\* invocation throws only on attempt 3.
C12_EveryFailureRetried ==
  [][(IsGenerate /\ pc = "awaitGenerate" /\ served' = served + 1) =>
       /\ (FailureCategory(Upstream(served')) # "none" /\ attempt < 3) =>
            /\ pc' = "awaitGenerate"
            /\ attempt' = attempt + 1
            /\ calls' = calls + 1
            /\ error' = Null
       /\ pc' = "threw" => attempt = 3]_vars

C12_Witness ==
  /\ IsGenerate
  /\ pc = "awaitGenerate"
  /\ served = 2
  /\ calls = 3
  /\ attempt = 3
  /\ FailureCategory(script[1]) = "parse"
  /\ FailureCategory(script[2]) = "network"

\* C14: attempts are sequential: at most one request is outstanding, and
\* the request of attempt k + 1 is issued in the step that receives the
\* answer to attempt k, finds it failing and records the failure in
\* lastError.
C14_AttemptsSequential ==
  [][IsGenerate' =>
       /\ calls' - served' \in {0, 1}
       /\ pc' = "awaitGenerate" <=> calls' - served' = 1
       /\ (IsGenerate /\ calls' # calls) =>
            /\ calls' = calls + 1
            /\ calls = served + 1
            /\ served' = served + 1
            /\ attempt' = served' + 1
            /\ FailureCategory(script[served']) # "none"
            /\ lastError' = Err(FailureMessage(served'))]_vars

C14_Witness ==
  /\ IsGenerate
  /\ calls = 3
  /\ served = 2
  /\ attempt = 3
  /\ lastError = Err(<<"Response is not a valid JSON object">>)

\* C19: with a key, the loop is left only by the return or by the throw of
\* attempt 3: attempt never passes 3, and the only error the caller gets is
\* the wrapped "after 3 attempts" one, never lastError itself nor the
\* fall-through's.
C19_LoopNeverFallsThrough ==
  (IsGenerate /\ apiKey # "") =>
    /\ attempt \in 1..3
    /\ pc \in {"awaitGenerate", "returned", "threw"}
    /\ pc = "threw" =>
         /\ attempt = 3
         /\ served = 3
         /\ error # lastError
         /\ error # Err(<<"All retry attempts failed">>)
         /\ Len(error.message) >= 3
         /\ SubSeq(error.message, 1, 3)
              = <<"Could not generate ASCII art after ", "3", " attempts: ">>
    /\ pc # "threw" => error = Null

C19_Witness ==
  /\ IsGenerate
  /\ apiKey # ""
  /\ pc = "threw"
  /\ attempt = 3
  /\ lastError = Err(<<"503 Service Unavailable">>)

\* The invocation has ended: with a validated result, or with an error.
GenerateEnded ==
  \/ /\ pc = "returned"
     /\ result # NoResult
     /\ result.tag = "AsciiArtData"
     /\ result.art.type = "string"
     /\ \E i \in 1..Len(result.art.chars) : result.art.chars[i] \notin {SP, NL}
     /\ error = Null
  \/ /\ pc = "threw"
     /\ result = NoResult
     /\ error # Null

\* C13: when every request issued is eventually answered, generateAsciiArt
\* ends, with a validated result or with an error; it never issues a fourth
\* request.
C13_GenerateTerminates ==
  /\ [](IsGenerate => (calls <= 3 /\ served <= calls))
  /\ [](IsGenerate => <>(IsGenerate /\ GenerateEnded))
  /\ []((IsGenerate /\ pc \in {"returned", "threw"}) => GenerateEnded)

C13_Witness ==
  /\ IsGenerate
  /\ GenerateEnded
  /\ calls = 3
  /\ pc = "threw"

\* The fragments of the upstream's chunks that carry text.
TextFragments(chunks) == AsFragments(SelectSeq(chunks, LAMBDA c : c # ""))

\* C16: with a credential, streamDefinition issues one request and no more;
\* the consumer never holds more fragments than it has pulled for; and when
\* the upstream ends without failing, the consumer observes the upstream's
\* non-empty chunks in order, no error fragment, and then the normal end.
C16_OneRequestLazyFragments ==
  (IsStream /\ apiKey # "") =>
    /\ calls <= 1
    /\ pc # "suspendedStart" => calls = 1
    /\ Len(observed) <= pulls
    /\ ~UpstreamFails =>
         /\ IsPrefix(observed, TextFragments(script.chunks))
         /\ \A i \in 1..Len(observed) : ~IsErrorFragment(observed[i])
         /\ pc \notin {"suspendedCatch", "threw"}
         /\ error = Null
         /\ pc = "done" => observed = TextFragments(script.chunks)

C16_Witness ==
  /\ IsStream
  /\ apiKey # ""
  /\ ~UpstreamFails
  /\ pc = "done"
  /\ script.chunks = <<"", "alpha">>
  /\ observed = <<<<"alpha">>>>
  /\ pulls = 2

\* C17: on a platform that is not native, the effect and its cleanup start
\* no async function, so that no dynamic import of the plugin is begun and
\* neither showBanner nor hideBanner is called, at mount, at unmount or in
\* between.
C17_NonNativeNeverTouchesPlugin ==
  ~native =>
    /\ tasks = <<>>
    /\ bridge = <<>>
    /\ ~banner

C17_Witness ==
  /\ ~native
  /\ mounts = 2
  /\ ~mounted
  /\ tasks = <<>>

\* The place of a mount's call in the order of the plugin calls, 0 when the
\* call has not been made.
CallPlace(call, k) ==
  LET at == {j \in 1..Len(bridge) : bridge[j] = [call |-> call, mount |-> k]}
  IN IF at = {} THEN 0 ELSE SetMin(at)

\* The async function of a mount that is to show the banner has ended
\* without calling the plugin.
ShowGaveUp(k) ==
  \E i \in 1..Len(tasks) :
    /\ tasks[i].kind = "show"
    /\ tasks[i].mount = k
    /\ tasks[i].pc = "failed"
    /\ CallPlace("showBanner", k) = 0

\* C18 as stated: on a native platform hideBanner is never called before
\* the showBanner of the same mount, and once the component is unmounted and
\* every async function has ended with its call taken, the banner is hidden.
C18_HideNeverBeforeShow ==
  native =>
    /\ \A k \in 1..mounts :
         CallPlace("hideBanner", k) # 0 =>
           \/ ShowGaveUp(k)
           \/ /\ CallPlace("showBanner", k) # 0
              /\ CallPlace("showBanner", k) < CallPlace("hideBanner", k)
    /\ (~mounted /\ \A i \in 1..Len(tasks) : tasks[i].pc = "done") => ~banner

\* What an invocation of generateAsciiArt comes to when it runs alone.
SoloGenerate(key, behaviour, flag) ==
  LET passes == {k \in 1..maxRetries : TryGenerate(behaviour[k], flag).ok}
  IN IF key = ""
     THEN [pc |-> "threw", result |-> NoResult, error |-> Err(MissingKeyMsg),
           calls |-> 0]
     ELSE IF passes # {}
     THEN [pc |-> "returned",
           result |-> TryGenerate(behaviour[SetMin(passes)], flag).result,
           error |-> Null, calls |-> SetMin(passes)]
     ELSE [pc |-> "threw", result |-> NoResult,
           error |-> Err(ExhaustedMsg(Caught(TryGenerate(behaviour[maxRetries], flag)))),
           calls |-> maxRetries]

\* What an invocation of getRandomWord comes to when it runs alone.
SoloWord(key, behaviour) ==
  IF key = ""
  THEN [pc |-> "threw", result |-> NoResult, error |-> Err(MissingKeyMsg),
        calls |-> 0]
  ELSE IF TryWord(behaviour[1]).ok
  THEN [pc |-> "returned", result |-> TryWord(behaviour[1]).result,
        error |-> Null, calls |-> 1]
  ELSE [pc |-> "threw", result |-> NoResult,
        error |-> Err(WordErrorMsg(TryWord(behaviour[1]))), calls |-> 1]

\* What a generator of streamDefinition comes to when it is consumed alone.
SoloStream(key, t, b) ==
  LET kind == IF b.open # "ok" THEN b.open ELSE b.end
      msg == StreamErrorMessage(kind, b.message)
  IN IF key = ""
     THEN [pc |-> "done", observed |-> <<KeyErrorFragment>>, error |-> Null,
           calls |-> 0]
     ELSE IF b.open = "ok" /\ b.end = "done"
     THEN [pc |-> "done", observed |-> TextFragments(b.chunks), error |-> Null,
           calls |-> 1]
     ELSE [pc |-> "threw",
           observed |-> TextFragments(b.chunks) \o <<StreamErrorFragment(t, msg)>>,
           error |-> Err(msg), calls |-> 1]

\* The part of an invocation's record that is its outcome.
OutcomeOf(me) ==
  [pc |-> me.pc, result |-> me.result, error |-> me.error, calls |-> me.calls]

StreamOutcomeOf(me) ==
  [pc |-> me.pc, observed |-> me.observed, error |-> me.error, calls |-> me.calls]

Ended(me) == me.pc \in {"returned", "threw", "done"}

\* The failure lastError holds while request number n of a script is
\* outstanding.
LastErrorBefore(behaviour, n, flag) ==
  IF n = 1 THEN Null ELSE Caught(TryGenerate(behaviour[n - 1], flag))

\* C15: whatever the interleaving of the invocations in flight, each
\* generateAsciiArt makes at most 3 requests, its attempt and lastError are
\* those its own responses so far give, and every invocation ends with the
\* outcome it comes to alone on the same responses.
C15_InvocationsIndependent ==
  inv # <<>> =>
    \A i \in Invocations :
      LET me == inv[i]
      IN /\ me.op = "generateAsciiArt" =>
              /\ me.calls <= 3
              /\ me.pc = "awaitGenerate" =>
                   /\ frames[i].attempt = me.calls
                   /\ me.served = me.calls - 1
                   /\ frames[i].lastError =
                        LastErrorBefore(me.script, me.calls, textFlag)
              /\ Ended(me) =>
                   OutcomeOf(me) = SoloGenerate(me.apiKey, me.script, textFlag)
         /\ (me.op = "getRandomWord" /\ Ended(me)) =>
              OutcomeOf(me) = SoloWord(me.apiKey, me.script)
         /\ (me.op = "streamDefinition" /\ Ended(me)) =>
              StreamOutcomeOf(me) = SoloStream(me.apiKey, me.topic, me.script)

C15_Witness ==
  /\ inv # <<>>
  /\ inv[1].op = "generateAsciiArt"
  /\ inv[2].op = "generateAsciiArt"
  /\ inv[1].pc = "awaitGenerate"
  /\ inv[2].pc = "awaitGenerate"
  /\ frames[1].attempt = 3
  /\ frames[2].attempt = 2
  /\ inv[1].script # inv[2].script

====
